---- MODULE Spec2Model ----
(***************************************************************************)
(* A model of the auto-markdown plugin of the editor                       *)
(* (src/editor/plugins/withAutoMarkdown.ts): the two interceptors          *)
(* editor.insertText and editor.deleteBackward, the two shortcut tables    *)
(* and the deleteText helper, over a document held by the host editor.     *)
(*                                                                         *)
(* Text is a sequence of one-character strings.  A document is a sequence  *)
(* of blocks in document order; a block records its type, the chain of    *)
(* list containers above it (outermost first) and its text leaves; a leaf  *)
(* records its text, its marks and the chain of link elements above it     *)
(* (outermost first, each link given by its url).                          *)
(***************************************************************************)
EXTENDS Integers, Sequences, FiniteSets, TLC

VARIABLES
    doc,        \* the document: a sequence of blocks
    selection,  \* editor.selection: NoSelection or [anchor, focus]
    marks,      \* editor.marks, the pending marks: NoMarks or a set of marks
    last,       \* what the last interceptor call was given and what it did
    typed,      \* the single characters typed since the empty document, or Dirty
    keys        \* the keys the user presses in this run

vars == <<doc, selection, marks, last, typed, keys>>

(***************************************************************************)
(* Sequences and text                                                      *)
(***************************************************************************)
Min(S) == CHOOSE x \in S : \A y \in S : x <= y

Max(S) == CHOOSE x \in S : \A y \in S : x >= y

Range(s) == {s[i] : i \in 1..Len(s)}

Take(s, n) == SubSeq(s, 1, n)

Drop(s, n) == SubSeq(s, n + 1, Len(s))

RECURSIVE Flatten(_)
Flatten(ss) == IF ss = <<>> THEN <<>> ELSE Head(ss) \o Flatten(Tail(ss))

\* the characters \s matches
WS == {" ", "\t", "\n", "\r"}

\* the characters [0-9] matches
Digits == {"0", "1", "2", "3", "4", "5", "6", "7", "8", "9"}

\* the backtick, which a TLA+ string cannot hold
BACKTICK == "backtick"

\* the characters . does not match
LineTerminators == {"\n", "\r"}

(***************************************************************************)
(* The shortcut tables                                                     *)
(***************************************************************************)
NoMatch == <<>>

\* the table with the types of ## and ### exchanged
BLOCK_SHORTCUTS_HeadingsSwapped == <<
    [match |-> "^(\\*|-|\\+)$", type |-> "list-item", listType |-> "bulleted-list"],
    [match |-> "^([0-9]+\\.)$", type |-> "list-item", listType |-> "numbered-list"],
    [match |-> "^>$",           type |-> "block-quote",   listType |-> "none"],
    [match |-> "^#$",           type |-> "heading-one",   listType |-> "none"],
    [match |-> "^##$",          type |-> "heading-three", listType |-> "none"],
    [match |-> "^###$",         type |-> "heading-two",   listType |-> "none"] >>

BLOCK_SHORTCUTS == <<
    [match |-> "^(\\*|-|\\+)$", type |-> "list-item", listType |-> "bulleted-list"],
    [match |-> "^([0-9]+\\.)$", type |-> "list-item", listType |-> "numbered-list"],
    [match |-> "^>$",           type |-> "block-quote",   listType |-> "none"],
    [match |-> "^#$",           type |-> "heading-one",   listType |-> "none"],
    [match |-> "^##$",          type |-> "heading-two",   listType |-> "none"],
    [match |-> "^###$",         type |-> "heading-three", listType |-> "none"] >>

\* beforeText.match(shortcut.match) for the anchored patterns of BLOCK_SHORTCUTS
BlockPatternMatches(pattern, s) ==
    CASE pattern = "^(\\*|-|\\+)$" -> Len(s) = 1 /\ s[1] \in {"*", "-", "+"}
      [] pattern = "^([0-9]+\\.)$" ->
            /\ Len(s) >= 2
            /\ s[Len(s)] = "."
            /\ \A i \in 1..(Len(s) - 1) : s[i] \in Digits
      [] pattern = "^>$"   -> s = <<">">>
      [] pattern = "^#$"   -> s = <<"#">>
      [] pattern = "^##$"  -> s = <<"#", "#">>
      [] pattern = "^###$" -> s = <<"#", "#", "#">>

\* the first entry of BLOCK_SHORTCUTS that matches, 0 if none does
BlockShortcut(s) ==
    LET hits == {i \in 1..Len(BLOCK_SHORTCUTS) :
                    BlockPatternMatches(BLOCK_SHORTCUTS[i].match, s)}
    IN  IF hits = {} THEN 0 ELSE Min(hits)

\* the table with the italic rules before the bold rules
INLINE_SHORTCUTS_ItalicFirst == <<
    [open |-> <<"*">>,      type |-> "italic"],
    [open |-> <<"_">>,      type |-> "italic"],
    [open |-> <<"*", "*">>, type |-> "bold"],
    [open |-> <<"_", "_">>, type |-> "bold"],
    [open |-> <<BACKTICK>>, type |-> "code"],
    [open |-> <<"[">>,      type |-> "link"] >>

INLINE_SHORTCUTS == <<
    [open |-> <<"*", "*">>, type |-> "bold"],
    [open |-> <<"_", "_">>, type |-> "bold"],
    [open |-> <<"*">>,      type |-> "italic"],
    [open |-> <<"_">>,      type |-> "italic"],
    [open |-> <<BACKTICK>>, type |-> "code"],
    [open |-> <<"[">>,      type |-> "link"] >>

\* (?:^|\s) : the delimiter at p is at the start of the text or follows whitespace
AtBoundary(s, p) == p = 1 \/ s[p - 1] \in WS

HasAt(s, p, d) == p + Len(d) - 1 <= Len(s) /\ SubSeq(s, p, p + Len(d) - 1) = d

\* ([^c]+) then the closing delimiter: the greedy inner text runs to the first c
EmphasisClose(s, p, d) ==
    LET from == p + Len(d)
        stops == {q \in from..Len(s) : s[q] = d[1]}
    IN  IF stops = {} THEN 0
        ELSE IF Min(stops) > from /\ HasAt(s, Min(stops), d) THEN Min(stops) ELSE 0

\* /(?:^|\s)(d)([^c]+)(d)/ : the groups of the leftmost match
EmphasisStarts(d, s) ==
    {p \in 1..Len(s) : AtBoundary(s, p) /\ HasAt(s, p, d) /\ EmphasisClose(s, p, d) # 0}

EmphasisMatch(d, s) ==
    LET starts == EmphasisStarts(d, s)
    IN  IF starts = {} THEN NoMatch
        ELSE LET p == Min(starts)
                 q == EmphasisClose(s, p, d)
             IN  <<d, SubSeq(s, p + Len(d), q - 1), d>>

AllDots(s, i, j) == \A k \in i..j : s[k] \notin LineTerminators

\* (.+) then the closing backtick: the greedy inner text runs to the last backtick
CodeCloses(s, p) ==
    {q \in (p + 2)..Len(s) : s[q] = BACKTICK /\ AllDots(s, p + 1, q - 1)}

\* the code pattern /(?:^|\s)(BACKTICK)(.+)(BACKTICK)/
CodeStarts(s) ==
    {p \in 1..Len(s) : AtBoundary(s, p) /\ s[p] = BACKTICK /\ CodeCloses(s, p) # {}}

CodeMatch(s) ==
    LET starts == CodeStarts(s)
    IN  IF starts = {} THEN NoMatch
        ELSE LET p == Min(starts)
                 q == Max(CodeCloses(s, p))
             IN  <<(<<BACKTICK>>), SubSeq(s, p + 1, q - 1), (<<BACKTICK>>)>>

\* (\))) after "](" at a: the url runs to the last ")" it can reach
LinkEnds(s, a) ==
    {b \in (a + 3)..Len(s) : s[b] = ")" /\ AllDots(s, a + 2, b - 1)}

\* (.+)(\]\() : the link text runs to the last "](" after which the rest matches
LinkMiddles(s, p) ==
    {a \in (p + 2)..Len(s) :
        /\ HasAt(s, a, <<"]", "(">>)
        /\ AllDots(s, p + 1, a - 1)
        /\ LinkEnds(s, a) # {}}

\* /(?:^|\s)(\[)(.+)(\]\()(.+)(\))/
LinkStarts(s) ==
    {p \in 1..Len(s) : AtBoundary(s, p) /\ s[p] = "[" /\ LinkMiddles(s, p) # {}}

LinkMatch(s) ==
    LET starts == LinkStarts(s)
    IN  IF starts = {} THEN NoMatch
        ELSE LET p == Min(starts)
                 a == Max(LinkMiddles(s, p))
                 b == Max(LinkEnds(s, a))
             IN  <<(<<"[">>), SubSeq(s, p + 1, a - 1), (<<"]", "(">>),
                   SubSeq(s, a + 2, b - 1), (<<")">>)>>

\* elementText.match(match) for entry i of INLINE_SHORTCUTS: the captured groups
InlinePatternMatch(i, s) ==
    LET rule == INLINE_SHORTCUTS[i]
    IN  CASE rule.type = "link" -> LinkMatch(s)
          [] rule.type = "code" -> CodeMatch(s)
          [] OTHER              -> EmphasisMatch(rule.open, s)

\* where in s the match of entry i ends: the position of the last character of
\* its last group, 0 if the entry does not match
InlineMatchEnd(i, s) ==
    LET rule   == INLINE_SHORTCUTS[i]
        starts == CASE rule.type = "link" -> LinkStarts(s)
                    [] rule.type = "code" -> CodeStarts(s)
                    [] OTHER              -> EmphasisStarts(rule.open, s)
    IN  IF starts = {} THEN 0
        ELSE Min(starts) + Len(Flatten(InlinePatternMatch(i, s))) - 1

\* the first entry of INLINE_SHORTCUTS that matches, 0 if none does
InlineShortcut(s) ==
    LET hits == {i \in 1..Len(INLINE_SHORTCUTS) : InlinePatternMatch(i, s) # NoMatch}
    IN  IF hits = {} THEN 0 ELSE Min(hits)

(***************************************************************************)
(* The document                                                            *)
(***************************************************************************)
\* editor.selection === null
NoSelection == [none |-> TRUE]

\* editor.marks === null
NoMarks == {"null"}

Leaf(text, mks, link) == [text |-> text, marks |-> mks, link |-> link]

\* the empty text node { text: '' } the host puts beside an inline element
EmptyLeaf(link) == Leaf(<<>>, {}, link)

Block(type, wrap, leaves) == [type |-> type, wrap |-> wrap, leaves |-> leaves]

\* a Point: the path to a text node (block b, leaf l) and an offset into its text
Point(b, l, o) == [b |-> b, l |-> l, o |-> o]

Caret(p) == [anchor |-> p, focus |-> p]

\* Range.isCollapsed
IsCollapsed(range) == range.anchor = range.focus

\* Point.isBefore / Point.equals on the points of one document
PointLeq(p, q) ==
    \/ p.b < q.b
    \/ p.b = q.b /\ p.l < q.l
    \/ p.b = q.b /\ p.l = q.l /\ p.o <= q.o

LeafTexts(leaves) == [i \in 1..Len(leaves) |-> leaves[i].text]

\* Node.string of a block
BlockText(block) == Flatten(LeafTexts(block.leaves))

\* Editor.string over the range from the start of block d[p.b] to the point p
TextBefore(d, p) ==
    Flatten(LeafTexts(Take(d[p.b].leaves, p.l - 1))) \o Take(d[p.b].leaves[p.l].text, p.o)

\* Node.string of the editor
DocText(d) == Flatten([i \in 1..Len(d) |-> BlockText(d[i])])

ValidPoint(d, p) ==
    /\ p.b \in 1..Len(d)
    /\ p.l \in 1..Len(d[p.b].leaves)
    /\ p.o \in 0..Len(d[p.b].leaves[p.l].text)

(***************************************************************************)
(* The host's normalization of the children of a block.  st is             *)
(* [leaves, l, o]: the leaves and the caret among them (l = 0: elsewhere). *)
(***************************************************************************)
RemoveAt(s, i) == Take(s, i - 1) \o Drop(s, i)

\* adjacent text nodes with the same parent
Siblings(x, y) == x.link = y.link

Mergeable(x, y) ==
    Siblings(x, y) /\ (x.marks = y.marks \/ x.text = <<>> \/ y.text = <<>>)

\* "Merge adjacent text nodes that are empty or match": merge equal neighbours,
\* else remove the empty one; a caret in a removed node moves to the end of the
\* text before it, or to the start of the text after it
RECURSIVE MergeTexts(_)
MergeTexts(st) ==
    LET lv == st.leaves
        js == {i \in 1..(Len(lv) - 1) : Mergeable(lv[i], lv[i + 1])}
    IN  IF js = {} THEN st
        ELSE LET i == Min(js)
                 x == lv[i]
                 y == lv[i + 1]
             IN  IF x.marks = y.marks
                 THEN MergeTexts(
                        [leaves |-> Take(lv, i - 1)
                                      \o <<[x EXCEPT !.text = x.text \o y.text]>>
                                      \o Drop(lv, i + 1),
                         l |-> IF st.l > i THEN st.l - 1 ELSE st.l,
                         o |-> IF st.l = i + 1 THEN st.o + Len(x.text) ELSE st.o])
                 ELSE IF x.text = <<>>
                 THEN MergeTexts(
                        [leaves |-> RemoveAt(lv, i),
                         l |-> IF st.l > i \/ (st.l = i /\ i > 1) THEN st.l - 1 ELSE st.l,
                         o |-> IF st.l # i THEN st.o
                               ELSE IF i > 1 THEN Len(lv[i - 1].text) ELSE 0])
                 ELSE MergeTexts(
                        [leaves |-> RemoveAt(lv, i + 1),
                         l |-> IF st.l > i THEN st.l - 1 ELSE st.l,
                         o |-> IF st.l = i + 1 THEN Len(x.text) ELSE st.o])

CommonPrefixLen(A, B) ==
    Max({k \in 0..Len(A) : k <= Len(B) /\ Take(A, k) = Take(B, k)})

\* "Ensure that inline nodes are surrounded by text nodes": the empty text nodes
\* the host inserts between a node under the links A and the next under the links B
\* (aText, bText: there is a text node on that side; FALSE at the block's edges)
Flanks(A, aText, B, bText) ==
    LET k == CommonPrefixLen(A, B)
        closing == [j \in 1..Max({0, Len(A) - 1 - k}) |-> EmptyLeaf(Take(A, Len(A) - j))]
        middle  == IF /\ (Len(A) > k \/ ~aText)
                      /\ (Len(B) > k \/ ~bText)
                      /\ (Len(A) > k \/ Len(B) > k)
                   THEN <<EmptyLeaf(Take(A, k))>> ELSE <<>>
        opening == [j \in 1..Max({0, Len(B) - 1 - k}) |-> EmptyLeaf(Take(B, k + j))]
    IN  closing \o middle \o opening

FlanksAfter(lv, i) ==
    Flanks(IF i = 0 THEN <<>> ELSE lv[i].link, i # 0,
           IF i = Len(lv) THEN <<>> ELSE lv[i + 1].link, i # Len(lv))

RECURSIVE WithFlanks(_, _)
WithFlanks(lv, i) ==
    IF i > Len(lv) THEN <<>>
    ELSE (IF i = 0 THEN <<>> ELSE <<lv[i]>>) \o FlanksAfter(lv, i) \o WithFlanks(lv, i + 1)

RECURSIVE FlanksBefore(_, _)
FlanksBefore(lv, l) ==
    IF l <= 0 THEN 0 ELSE Len(FlanksAfter(lv, l - 1)) + FlanksBefore(lv, l - 1)

SurroundInlines(st) ==
    [leaves |-> WithFlanks(st.leaves, 0),
     l |-> IF st.l = 0 THEN 0 ELSE st.l + FlanksBefore(st.leaves, st.l),
     o |-> st.o]

\* editor.normalizeNode on the children of one block
NormalizeLeaves(st) == SurroundInlines(MergeTexts(st))

(***************************************************************************)
(* The host editor.  An editor value e is [doc, sel, marks, calls, ok,     *)
(* oob]: the document, editor.selection, editor.marks, the host calls the  *)
(* running interceptor has made, whether it is still running (no call has  *)
(* thrown) and what the host does with a range outside its text node       *)
(* ("throw" or "clamp": the host's answer to such a range is not defined). *)
(***************************************************************************)
Called(e, call) == [e EXCEPT !.calls = Append(@, call)]

LeafAt(e, b, l) == e.doc[b].leaves[l]

ValidPath(e, b, l) == b \in 1..Len(e.doc) /\ l \in 1..Len(e.doc[b].leaves)

\* the length of the text node a path addresses, -1 if there is no such node
NodeLength(e, b, l) == IF ValidPath(e, b, l) THEN Len(LeafAt(e, b, l).text) ELSE -1

InBounds(e, b, l, lo, hi) ==
    ValidPath(e, b, l) /\ 0 <= lo /\ lo <= hi /\ hi <= NodeLength(e, b, l)

Clamp(x, n) == IF x < 0 THEN 0 ELSE IF x > n THEN n ELSE x

HasCaret(e) == e.sel # NoSelection /\ IsCollapsed(e.sel)

\* the leaves of block b with the caret among them
LeavesOf(e, b) ==
    [leaves |-> e.doc[b].leaves,
     l |-> IF HasCaret(e) /\ e.sel.anchor.b = b THEN e.sel.anchor.l ELSE 0,
     o |-> IF HasCaret(e) /\ e.sel.anchor.b = b THEN e.sel.anchor.o ELSE 0]

PutLeaves(e, b, st) ==
    [e EXCEPT !.doc[b].leaves = st.leaves,
              !.sel = IF st.l = 0 THEN @ ELSE Caret(Point(b, st.l, st.o))]

Normalized(e, b) == PutLeaves(e, b, NormalizeLeaves(LeavesOf(e, b)))

\* Transforms.select: a changed selection clears editor.marks
HostSelect(e, range) ==
    IF range = e.sel THEN e ELSE [e EXCEPT !.sel = range, !.marks = NoMarks]

\* the remove_text operation on [lo, hi) of leaf l of block b, the caret following
RemoveText(e, b, l, lo, hi) ==
    LET st == LeavesOf(e, b)
        t  == st.leaves[l].text
    IN  Normalized(PutLeaves(e, b,
            [leaves |-> [st.leaves EXCEPT ![l].text = Take(t, lo) \o Drop(t, hi)],
             l |-> st.l,
             o |-> IF st.l # l THEN st.o
                   ELSE IF st.o >= hi THEN st.o - (hi - lo)
                   ELSE IF st.o > lo THEN lo ELSE st.o]), b)

\* Transforms.delete(editor, { at: range }) on the range [lo, hi] of one text node
HostDeleteAt(e, b, l, lo, hi) ==
    LET c == Called(e, [fn |-> "delete", path |-> <<b, l>>, start |-> lo,
                        end |-> hi, length |-> NodeLength(e, b, l)])
        n == NodeLength(e, b, l)
    IN  IF ~e.ok THEN e
        ELSE IF InBounds(e, b, l, lo, hi) THEN RemoveText(c, b, l, lo, hi)
        ELSE IF e.oob = "clamp" /\ ValidPath(e, b, l) /\ lo <= hi
        THEN RemoveText(c, b, l, Clamp(lo, n), Clamp(hi, n))
        ELSE [c EXCEPT !.ok = FALSE]

\* the leaves after leaf l is split at lo and hi and its middle replaced by mid;
\* edge is what stands for a side the split leaves nothing on
SplitLeaves(st, l, lo, hi, mid, edge) ==
    LET leaf  == st.leaves[l]
        n     == Len(leaf.text)
        left  == IF lo > 0 THEN <<[leaf EXCEPT !.text = Take(leaf.text, lo)]>> ELSE edge
        right == IF hi < n THEN <<[leaf EXCEPT !.text = Drop(leaf.text, hi)]>> ELSE edge
        pieces == left \o <<mid>> \o right
    IN  [leaves |-> Take(st.leaves, l - 1) \o pieces \o Drop(st.leaves, l),
         l |-> IF st.l = 0 \/ st.l < l THEN st.l
               ELSE IF st.l > l THEN st.l + Len(pieces) - 1
               ELSE IF hi < n /\ st.o >= hi THEN l + Len(left) + 1
               ELSE IF lo > 0 /\ st.o < lo THEN l
               ELSE l + Len(left),
         o |-> IF st.l # l THEN st.o
               ELSE IF hi < n /\ st.o >= hi THEN st.o - hi
               ELSE IF lo > 0 /\ st.o >= lo THEN st.o - lo
               ELSE st.o]

Middle(leaf, lo, hi) == [leaf EXCEPT !.text = SubSeq(leaf.text, lo + 1, hi)]

\* Transforms.setNodes(editor, { [type]: true }, { at, match: Text.isText, split: true })
SetMark(e, b, l, lo, hi, type) ==
    LET mid == [Middle(LeafAt(e, b, l), lo, hi) EXCEPT !.marks = @ \cup {type}]
    IN  Normalized(PutLeaves(e, b, SplitLeaves(LeavesOf(e, b), l, lo, hi, mid, <<>>)), b)

HostSetNodesMark(e, b, l, lo, hi, type) ==
    LET c == Called(e, [fn |-> "setNodes", path |-> <<b, l>>, start |-> lo,
                        end |-> hi, length |-> NodeLength(e, b, l)])
        n == NodeLength(e, b, l)
    IN  IF ~e.ok THEN e
        ELSE IF InBounds(e, b, l, lo, hi) THEN
            (IF lo = hi THEN c ELSE SetMark(c, b, l, lo, hi, type))
        ELSE IF e.oob = "clamp" /\ ValidPath(e, b, l) /\ Clamp(lo, n) < Clamp(hi, n)
        THEN SetMark(c, b, l, Clamp(lo, n), Clamp(hi, n), type)
        ELSE [c EXCEPT !.ok = FALSE]

\* Transforms.wrapNodes(editor, link, { at, split: true }) for the inline link
WrapLink(e, b, l, lo, hi, url) ==
    LET leaf == LeafAt(e, b, l)
        mid  == [Middle(leaf, lo, hi) EXCEPT !.link = Append(@, url)]
    IN  Normalized(PutLeaves(e, b,
            SplitLeaves(LeavesOf(e, b), l, lo, hi, mid, <<EmptyLeaf(leaf.link)>>)), b)

HostWrapNodesLink(e, b, l, lo, hi, url) ==
    LET c == Called(e, [fn |-> "wrapNodes", path |-> <<b, l>>, start |-> lo,
                        end |-> hi, length |-> NodeLength(e, b, l)])
        n == NodeLength(e, b, l)
    IN  IF ~e.ok THEN e
        ELSE IF InBounds(e, b, l, lo, hi) THEN WrapLink(c, b, l, lo, hi, url)
        ELSE IF e.oob = "clamp" /\ ValidPath(e, b, l) /\ lo <= hi
        THEN WrapLink(c, b, l, Clamp(lo, n), Clamp(hi, n), url)
        ELSE [c EXCEPT !.ok = FALSE]

\* Editor.marks: the pending marks, else the marks of the text node at the caret
EditorMarks(e) ==
    IF e.marks # NoMarks THEN e.marks
    ELSE LeafAt(e, e.sel.anchor.b, e.sel.anchor.l).marks

\* Editor.removeMark with a collapsed selection
HostRemoveMark(e, type) ==
    IF ~e.ok THEN e
    ELSE LET c == Called(e, [fn |-> "removeMark", mark |-> type])
         IN  IF HasCaret(c) THEN [c EXCEPT !.marks = EditorMarks(c) \ {type}] ELSE c

\* the host's editor.insertText: nothing without a selection; a selected range
\* is deleted first; pending marks make the text a node of its own
InsertAtCaret(e, text) ==
    LET p    == e.sel.anchor
        st   == LeavesOf(e, p.b)
        leaf == st.leaves[p.l]
    IN  IF e.marks = NoMarks
        THEN PutLeaves(e, p.b,
                [leaves |-> [st.leaves EXCEPT
                                ![p.l].text = Take(leaf.text, p.o) \o text \o Drop(leaf.text, p.o)],
                 l |-> p.l,
                 o |-> p.o + Len(text)])
        ELSE LET left   == IF p.o > 0 THEN <<[leaf EXCEPT !.text = Take(leaf.text, p.o)]>>
                           ELSE <<>>
                 right  == IF p.o < Len(leaf.text) \/ p.o = 0
                           THEN <<[leaf EXCEPT !.text = Drop(leaf.text, p.o)]>> ELSE <<>>
                 node   == Leaf(text, e.marks, leaf.link)
             IN  Normalized(PutLeaves(e, p.b,
                    [leaves |-> Take(st.leaves, p.l - 1) \o left \o <<node>> \o right
                                  \o Drop(st.leaves, p.l),
                     l |-> p.l + Len(left),
                     o |-> Len(text)]), p.b)

HostInsertText(e, text) ==
    LET c == Called(e, [fn |-> "insertText", text |-> text])
    IN  IF ~e.ok THEN e
        ELSE IF c.sel = NoSelection THEN c
        ELSE IF IsCollapsed(c.sel) THEN [InsertAtCaret(c, text) EXCEPT !.marks = NoMarks]
        ELSE LET from == IF PointLeq(c.sel.anchor, c.sel.focus) THEN c.sel.anchor
                         ELSE c.sel.focus
                 to   == IF PointLeq(c.sel.anchor, c.sel.focus) THEN c.sel.focus
                         ELSE c.sel.anchor
                 cut  == RemoveText([c EXCEPT !.sel = Caret(from), !.marks = NoMarks],
                                    from.b, from.l, from.o, to.o)
             IN  [InsertAtCaret(cut, text) EXCEPT !.marks = NoMarks]

\* Transforms.select(editor, beforeRange); Transforms.delete(editor): the text of
\* block p.b up to the point p goes, the caret is left where it ended
HostDeleteBefore(e, p) ==
    LET lv   == e.doc[p.b].leaves
        leaf == lv[p.l]
        rest == <<[leaf EXCEPT !.text = Drop(leaf.text, p.o)]>> \o Drop(lv, p.l)
        c    == Called(Called(HostSelect(e, [anchor |-> p, focus |-> Point(p.b, 1, 0)]),
                              [fn |-> "select"]), [fn |-> "deleteSelection"])
    IN  IF p.l = 1
        THEN Normalized(PutLeaves(c, p.b, [leaves |-> rest, l |-> 1, o |-> 0]), p.b)
        ELSE Normalized(PutLeaves(c, p.b,
                [leaves |-> <<[lv[1] EXCEPT !.text = <<>>]>> \o rest, l |-> 2, o |-> 0]), p.b)

\* Transforms.setNodes(editor, { type }, { match: isBlock }) at the selection
HostSetBlockType(e, type) ==
    [Called(e, [fn |-> "setNodes", type |-> type]) EXCEPT !.doc[e.sel.anchor.b].type = type]

\* Transforms.wrapNodes(editor, list, { match: n.type === 'list-item' }) at the selection
HostWrapNodesList(e, listType) ==
    LET c == Called(e, [fn |-> "wrapNodes", type |-> listType])
        b == e.sel.anchor.b
    IN  IF c.doc[b].type = "list-item" THEN [c EXCEPT !.doc[b].wrap = Append(@, listType)]
        ELSE c

\* Editor.isEmpty of a block
IsEmptyBlock(block) == Len(block.leaves) = 1 /\ block.leaves[1].text = <<>>

\* the host's editor.deleteBackward('character') with a collapsed selection: the
\* character before the caret goes; at the start of a block the block is merged
\* into the block before it, an empty block before it being removed instead
HostDeleteBackward(e) ==
    LET c  == Called(e, [fn |-> "deleteBackward"])
        p  == e.sel.anchor
        lv == e.doc[p.b].leaves
        js == {j \in 1..p.l : IF j = p.l THEN p.o > 0 ELSE lv[j].text # <<>>}
    IN  IF ~e.ok THEN e
        ELSE IF js # {} THEN
            LET j   == Max(js)
                end == IF j = p.l THEN p.o ELSE Len(lv[j].text)
            IN  RemoveText([c EXCEPT !.sel = Caret(Point(p.b, j, end))], p.b, j, end - 1, end)
        ELSE IF p.b = 1 THEN c
        ELSE LET prev == c.doc[p.b - 1]
                 cur  == c.doc[p.b]
             IN  IF IsEmptyBlock(prev)
                 THEN [c EXCEPT !.doc = Take(c.doc, p.b - 2)
                                          \o <<[cur EXCEPT !.wrap = prev.wrap]>>
                                          \o Drop(c.doc, p.b),
                                !.sel = Caret(Point(p.b - 1, p.l, p.o))]
                 ELSE Normalized(
                        [c EXCEPT !.doc = Take(c.doc, p.b - 2)
                                            \o <<[prev EXCEPT !.leaves = @ \o cur.leaves]>>
                                            \o Drop(c.doc, p.b),
                                  !.sel = Caret(Point(p.b - 1, Len(prev.leaves),
                                                Len(prev.leaves[Len(prev.leaves)].text)))],
                        p.b - 1)

\* the host's editor.insertBreak: the block is split at the caret
HostInsertBreak(e) ==
    LET p    == e.sel.anchor
        blk  == e.doc[p.b]
        leaf == blk.leaves[p.l]
        head == NormalizeLeaves(
                    [leaves |-> Take(blk.leaves, p.l - 1)
                                  \o <<[leaf EXCEPT !.text = Take(leaf.text, p.o)]>>,
                     l |-> 0, o |-> 0])
        tail == NormalizeLeaves(
                    [leaves |-> <<[leaf EXCEPT !.text = Drop(leaf.text, p.o)]>>
                                  \o Drop(blk.leaves, p.l),
                     l |-> 1, o |-> 0])
    IN  [e EXCEPT !.doc = Take(e.doc, p.b - 1)
                            \o <<[blk EXCEPT !.leaves = head.leaves],
                                 [blk EXCEPT !.leaves = tail.leaves]>>
                            \o Drop(e.doc, p.b),
                  !.sel = Caret(Point(p.b + 1, tail.l, tail.o)),
                  !.marks = NoMarks]

(***************************************************************************)
(* The plugin: withAutoMarkdown                                            *)
(***************************************************************************)
\* deleteText deleting the length characters that start at offset
deleteTextAfter(e, path, offset, length) ==
    LET anchorOffset == offset + length
    IN  IF anchorOffset = offset THEN e
        ELSE HostDeleteAt(e, path[1], path[2], offset, anchorOffset)

\* deleteText: deletes length characters ending at offset of the text node at path
deleteText(e, path, offset, length) ==
    LET anchorOffset == offset - length
    IN  IF anchorOffset = offset THEN e
        ELSE HostDeleteAt(e, path[1], path[2], anchorOffset, offset)

\* the length of the end mark with its last character counted as in the editor
EndMarkLengthWhole(endMark) == Len(endMark)

\* "The last character is not in the editor"
EndMarkLength(endMark) == Len(endMark) - 1

\* the block shortcut: the trigger text is selected and deleted, the block retyped
\* and, for a list item, wrapped in a list
ApplyBlockShortcut(e, anchor, shortcut) ==
    LET deleted == HostDeleteBefore(e, anchor)
        retyped == HostSetBlockType(deleted, shortcut.type)
    IN  IF shortcut.type = "list-item" THEN HostWrapNodesList(retyped, shortcut.listType)
        ELSE retyped

\* the emphasis shortcut with endOfSelection not moved back over the start mark
ApplyEmphasisStaleEnd(e, anchor, type, result) ==
    LET selectionPath  == <<anchor.b, anchor.l>>
        startMark      == result[1]
        textToFormat   == result[2]
        endMark        == result[3]
        endMarkLength  == EndMarkLength(endMark)
        e1             == deleteText(e, selectionPath, anchor.o, endMarkLength)
        endOfSelection1 == anchor.o - endMarkLength
        e2             == deleteText(e1, selectionPath,
                                     endOfSelection1 - Len(textToFormat), Len(startMark))
        e3             == HostSetNodesMark(e2, anchor.b, anchor.l,
                                           endOfSelection1 - Len(textToFormat),
                                           endOfSelection1, type)
    IN  HostRemoveMark(e3, type)

\* the emphasis shortcut without the removeMark that ends it
ApplyEmphasisKeepsMark(e, anchor, type, result) ==
    LET selectionPath  == <<anchor.b, anchor.l>>
        startMark      == result[1]
        textToFormat   == result[2]
        endMark        == result[3]
        endMarkLength  == EndMarkLength(endMark)
        e1             == deleteText(e, selectionPath, anchor.o, endMarkLength)
        endOfSelection1 == anchor.o - endMarkLength
        e2             == deleteText(e1, selectionPath,
                                     endOfSelection1 - Len(textToFormat), Len(startMark))
        endOfSelection2 == endOfSelection1 - Len(startMark)
    IN  HostSetNodesMark(e2, anchor.b, anchor.l,
                         endOfSelection2 - Len(textToFormat), endOfSelection2, type)

\* the bold, italic and code shortcuts: both delimiters are deleted, the text
\* between them is marked and the pending mark removed
ApplyEmphasis(e, anchor, type, result) ==
    LET selectionPath  == <<anchor.b, anchor.l>>
        startMark      == result[1]
        textToFormat   == result[2]
        endMark        == result[3]
        endMarkLength  == EndMarkLength(endMark)
        e1             == deleteText(e, selectionPath, anchor.o, endMarkLength)
        endOfSelection1 == anchor.o - endMarkLength
        e2             == deleteText(e1, selectionPath,
                                     endOfSelection1 - Len(textToFormat), Len(startMark))
        endOfSelection2 == endOfSelection1 - Len(startMark)
        e3             == HostSetNodesMark(e2, anchor.b, anchor.l,
                                           endOfSelection2 - Len(textToFormat),
                                           endOfSelection2, type)
    IN  HostRemoveMark(e3, type)

\* the link shortcut with the link text given as the url of the link
ApplyLinkTextAsUrl(e, anchor, result) ==
    LET selectionPath  == <<anchor.b, anchor.l>>
        startMark      == result[1]
        linkText       == result[2]
        middleMark     == result[3]
        linkUrl        == result[4]
        endMark        == result[5]
        endMarkLength  == EndMarkLength(endMark)
        endLength      == Len(middleMark) + Len(linkUrl) + endMarkLength
        e1             == deleteText(e, selectionPath, anchor.o, endLength)
        endOfSelection1 == anchor.o - endLength
        e2             == deleteText(e1, selectionPath,
                                     endOfSelection1 - Len(linkText), Len(startMark))
        endOfSelection2 == endOfSelection1 - Len(startMark)
    IN  HostWrapNodesLink(e2, anchor.b, anchor.l,
                          endOfSelection2 - Len(linkText), endOfSelection2, linkText)

\* the link shortcut: "](", the url and the opening bracket are deleted and the
\* link text wrapped in a link
ApplyLink(e, anchor, result) ==
    LET selectionPath  == <<anchor.b, anchor.l>>
        startMark      == result[1]
        linkText       == result[2]
        middleMark     == result[3]
        linkUrl        == result[4]
        endMark        == result[5]
        endMarkLength  == EndMarkLength(endMark)
        endLength      == Len(middleMark) + Len(linkUrl) + endMarkLength
        e1             == deleteText(e, selectionPath, anchor.o, endLength)
        endOfSelection1 == anchor.o - endLength
        e2             == deleteText(e1, selectionPath,
                                     endOfSelection1 - Len(linkText), Len(startMark))
        endOfSelection2 == endOfSelection1 - Len(startMark)
    IN  HostWrapNodesLink(e2, anchor.b, anchor.l,
                          endOfSelection2 - Len(linkText), endOfSelection2, linkUrl)

\* the block rule that "text === ' '" and beforeText select, 0 if none
BlockHit(e, text) ==
    IF text = <<" ">> THEN BlockShortcut(TextBefore(e.doc, e.sel.anchor)) ELSE 0

\* SlateEditor.string(editor, elementRange) + text
ElementText(e, text) ==
    Take(LeafAt(e, e.sel.anchor.b, e.sel.anchor.l).text, e.sel.anchor.o) \o text

\* what a call of editor.insertText did: the editor it leaves, the block rule and
\* the inline rule it applied (0: none), the elementText the inline rule matched,
\* the groups it captured and where in elementText its match ended
Outcome(e, block, inline, element) ==
    [ed |-> e, block |-> block, inline |-> inline, element |-> element,
     result |-> IF inline = 0 THEN NoMatch ELSE InlinePatternMatch(inline, element),
     matchEnd |-> IF inline = 0 THEN 0 ELSE InlineMatchEnd(inline, element)]

\* editor.insertText that goes on to insert the space after a block rule
insertTextAfterBlock(e, text) ==
    IF e.sel = NoSelection \/ ~IsCollapsed(e.sel)
    THEN Outcome(HostInsertText(e, text), 0, 0, <<>>)
    ELSE IF BlockHit(e, text) # 0
    THEN Outcome(HostInsertText(ApplyBlockShortcut(e, e.sel.anchor,
                                                   BLOCK_SHORTCUTS[BlockHit(e, text)]), text),
                 BlockHit(e, text), 0, <<>>)
    ELSE LET elementText == ElementText(e, text)
             hit         == InlineShortcut(elementText)
             result      == InlinePatternMatch(hit, elementText)
         IN  IF hit = 0 THEN Outcome(HostInsertText(e, text), 0, 0, <<>>)
             ELSE IF INLINE_SHORTCUTS[hit].type = "link"
             THEN Outcome(ApplyLink(e, e.sel.anchor, result), 0, hit, elementText)
             ELSE Outcome(ApplyEmphasis(e, e.sel.anchor, INLINE_SHORTCUTS[hit].type, result),
                          0, hit, elementText)

\* editor.insertText that drops the text when no rule matches
insertTextNoFallthrough(e, text) ==
    IF e.sel = NoSelection \/ ~IsCollapsed(e.sel)
    THEN Outcome(HostInsertText(e, text), 0, 0, <<>>)
    ELSE IF BlockHit(e, text) # 0
    THEN Outcome(ApplyBlockShortcut(e, e.sel.anchor, BLOCK_SHORTCUTS[BlockHit(e, text)]),
                 BlockHit(e, text), 0, <<>>)
    ELSE LET elementText == ElementText(e, text)
             hit         == InlineShortcut(elementText)
             result      == InlinePatternMatch(hit, elementText)
         IN  IF hit = 0 THEN Outcome(e, 0, 0, <<>>)
             ELSE IF INLINE_SHORTCUTS[hit].type = "link"
             THEN Outcome(ApplyLink(e, e.sel.anchor, result), 0, hit, elementText)
             ELSE Outcome(ApplyEmphasis(e, e.sel.anchor, INLINE_SHORTCUTS[hit].type, result),
                          0, hit, elementText)

\* editor.insertText that tests only for a missing selection
insertTextInRange(e, text) ==
    IF e.sel = NoSelection
    THEN Outcome(HostInsertText(e, text), 0, 0, <<>>)
    ELSE IF BlockHit(e, text) # 0
    THEN Outcome(ApplyBlockShortcut(e, e.sel.anchor, BLOCK_SHORTCUTS[BlockHit(e, text)]),
                 BlockHit(e, text), 0, <<>>)
    ELSE LET elementText == ElementText(e, text)
             hit         == InlineShortcut(elementText)
             result      == InlinePatternMatch(hit, elementText)
         IN  IF hit = 0 THEN Outcome(HostInsertText(e, text), 0, 0, <<>>)
             ELSE IF INLINE_SHORTCUTS[hit].type = "link"
             THEN Outcome(ApplyLink(e, e.sel.anchor, result), 0, hit, elementText)
             ELSE Outcome(ApplyEmphasis(e, e.sel.anchor, INLINE_SHORTCUTS[hit].type, result),
                          0, hit, elementText)

\* editor.insertText = (text) => ...
insertText(e, text) ==
    IF e.sel = NoSelection \/ ~IsCollapsed(e.sel)
    THEN Outcome(HostInsertText(e, text), 0, 0, <<>>)
    ELSE IF BlockHit(e, text) # 0
    THEN Outcome(ApplyBlockShortcut(e, e.sel.anchor, BLOCK_SHORTCUTS[BlockHit(e, text)]),
                 BlockHit(e, text), 0, <<>>)
    ELSE LET elementText == ElementText(e, text)
             hit         == InlineShortcut(elementText)
             result      == InlinePatternMatch(hit, elementText)
         IN  IF hit = 0 THEN Outcome(HostInsertText(e, text), 0, 0, <<>>)
             ELSE IF INLINE_SHORTCUTS[hit].type = "link"
             THEN Outcome(ApplyLink(e, e.sel.anchor, result), 0, hit, elementText)
             ELSE Outcome(ApplyEmphasis(e, e.sel.anchor, INLINE_SHORTCUTS[hit].type, result),
                          0, hit, elementText)

\* the outdent test without the exclusion of list-item
IsOutdentOfListItem(e) ==
    /\ e.doc[e.sel.anchor.b].type # "paragraph"
    /\ e.sel.anchor = Point(e.sel.anchor.b, 1, 0)

\* the outdent test of editor.deleteBackward
IsOutdent(e) ==
    /\ e.doc[e.sel.anchor.b].type # "paragraph"
    /\ e.doc[e.sel.anchor.b].type # "list-item"
    /\ e.sel.anchor = Point(e.sel.anchor.b, 1, 0)

\* editor.deleteBackward with the host's deleteBackward called whatever the
\* selection is: nothing happens without a selection, a selected range is deleted
deleteBackwardOutsideIf(e) ==
    IF e.sel # NoSelection /\ IsCollapsed(e.sel)
    THEN IF IsOutdent(e) THEN HostSetBlockType(e, "paragraph") ELSE HostDeleteBackward(e)
    ELSE IF e.sel = NoSelection THEN Called(e, [fn |-> "deleteBackward"])
    ELSE LET from == IF PointLeq(e.sel.anchor, e.sel.focus) THEN e.sel.anchor ELSE e.sel.focus
             to   == IF PointLeq(e.sel.anchor, e.sel.focus) THEN e.sel.focus ELSE e.sel.anchor
         IN  Called(RemoveText([e EXCEPT !.sel = Caret(from)], from.b, from.l, from.o, to.o),
                    [fn |-> "deleteBackward"])

\* editor.deleteBackward without the return that ends the outdent
deleteBackwardFallsThrough(e) ==
    IF e.sel # NoSelection /\ IsCollapsed(e.sel)
    THEN IF IsOutdent(e) THEN HostDeleteBackward(HostSetBlockType(e, "paragraph"))
         ELSE HostDeleteBackward(e)
    ELSE e

\* editor.deleteBackward = (...args) => ...
deleteBackward(e) ==
    IF e.sel # NoSelection /\ IsCollapsed(e.sel)
    THEN IF IsOutdent(e) THEN HostSetBlockType(e, "paragraph") ELSE HostDeleteBackward(e)
    ELSE e

(***************************************************************************)
(* The state machine: one action for each call the host makes on the       *)
(* editor (a typed character, pasted text, backspace, enter, a click)      *)
(***************************************************************************)
\* the bounds of the model
MaxNest == 2

MaxLeaves == 5

MaxBlocks == 2

MaxPaste == 2

\* the typed characters that are remembered
MaxTyped == 6

Bounded(d) ==
    /\ Len(d) <= MaxBlocks
    /\ \A b \in 1..Len(d) : Len(d[b].wrap) <= MaxNest /\ Len(d[b].leaves) <= MaxLeaves

\* typed, once something other than typing a character has happened
Dirty == <<"dirty">>

Editor ==
    [doc |-> doc, sel |-> selection, marks |-> marks, calls |-> <<>>, ok |-> TRUE,
     oob |-> "throw"]

Commit(e) == doc' = e.doc /\ selection' = e.sel /\ marks' = e.marks

\* the record of a call: the interceptor called, the text it was given, the
\* rules it applied, what the inline rule matched, the host calls it made,
\* whether it returned, and whether the call before it was a deleteBackward
\* that outdented
NoCall(op) ==
    [op |-> op, text |-> <<>>, block |-> 0, inline |-> 0, element |-> <<>>,
     result |-> NoMatch, matchEnd |-> 0, calls |-> <<>>, ok |-> TRUE,
     afterOutdent |-> FALSE]

Outdented(call) ==
    call.op = "deleteBackward" /\ call.calls # <<>> /\ call.calls[1].fn = "setNodes"

EmptyParagraph == Block("paragraph", <<>>, <<Leaf(<<>>, {}, <<>>)>>)

InitWith(keyboards) ==
    /\ doc = <<EmptyParagraph>>
    /\ selection = Caret(Point(1, 1, 0))
    /\ marks = NoMarks
    /\ last = NoCall("init")
    /\ typed = <<>>
    /\ keys \in keyboards

\* the host calls editor.insertText(text)
InsertText(text) ==
    LET thrown  == insertText(Editor, text)
        clamped == insertText([Editor EXCEPT !.oob = "clamp"], text)
    IN  \E out \in (IF thrown.ed.ok THEN {thrown} ELSE {thrown, clamped}) :
            /\ Bounded(out.ed.doc)
            /\ Commit(out.ed)
            /\ last' = [op |-> "insertText", text |-> text, block |-> out.block,
                        inline |-> out.inline, element |-> out.element,
                        result |-> out.result, matchEnd |-> out.matchEnd,
                        calls |-> out.ed.calls, ok |-> out.ed.ok,
                        afterOutdent |-> Outdented(last)]
            /\ typed' = IF typed # Dirty /\ Len(text) = 1 /\ Len(typed) < MaxTyped
                        THEN typed \o text ELSE Dirty
            /\ UNCHANGED keys

\* a key is pressed
Type == \E c \in keys : InsertText(<<c>>)

Texts(from, to) == UNION {[1..k -> keys] : k \in from..to}

\* text of more than one and at most n characters is pasted
Paste(n) == \E s \in Texts(2, Min({MaxPaste, n})) : InsertText(s)

\* the host calls editor.deleteBackward('character')
DeleteBackward ==
    LET e == deleteBackward(Editor)
    IN  /\ Commit(e)
        /\ last' = [NoCall("deleteBackward") EXCEPT !.calls = e.calls,
                                                    !.afterOutdent = Outdented(last)]
        /\ typed' = Dirty
        /\ UNCHANGED keys

\* the host calls editor.insertBreak()
InsertBreak ==
    /\ HasCaret(Editor)
    /\ Len(doc) < MaxBlocks
    /\ Commit(HostInsertBreak(Editor))
    /\ last' = [NoCall("insertBreak") EXCEPT !.afterOutdent = Outdented(last)]
    /\ typed' = Dirty
    /\ UNCHANGED keys

Points(d) ==
    UNION {UNION {{Point(b, l, o) : o \in 0..Len(d[b].leaves[l].text)} :
                     l \in 1..Len(d[b].leaves)} : b \in 1..Len(d)}

Select(range) ==
    /\ range # selection
    /\ Commit(HostSelect(Editor, range))
    /\ last' = [NoCall("select") EXCEPT !.afterOutdent = Outdented(last)]
    /\ typed' = Dirty
    /\ UNCHANGED keys

\* the user puts the caret somewhere
MoveCaret == \E p \in Points(doc) : Select(Caret(p))

\* the user selects part of a text node
SelectRange ==
    \E p, q \in Points(doc) :
        /\ p.b = q.b /\ p.l = q.l /\ p.o < q.o
        /\ Select([anchor |-> p, focus |-> q])

\* the editor loses its selection
Deselect == Select(NoSelection)

(***************************************************************************)
(* Specifications                                                          *)
(***************************************************************************)
\* SpecTyping: characters are typed, one at a time, into the empty document
TypingKeyboards ==
    { {"*", "-", "+", " "}, {"1", ".", " "}, {"#", ">", " "}, {"-", "#", " "},
      {"*", "a", " "}, {"_", "a", " "}, {BACKTICK, "a", " "},
      {"[", "]", "(", ")", "a", "b"} }

InitTyping == InitWith(TypingKeyboards)

NextTyping == Len(typed) < MaxTyped /\ Type

SpecTyping == InitTyping /\ [][NextTyping]_vars

\* SpecPaste: characters are typed into the empty document, then text is pasted
PasteKeyboards == { {"*", "a"}, {"_", " "}, {BACKTICK, "a"}, {"[", "]", "(", ")"} }

InitPaste == InitWith(PasteKeyboards)

NextPaste ==
    /\ typed # Dirty
    /\ \/ Len(typed) + MaxPaste < MaxTyped /\ Type
       \/ Paste(MaxPaste)

SpecPaste == InitPaste /\ [][NextPaste]_vars

\* SpecKeystroke: one key is pressed in a loaded document: a heading and a
\* paragraph that holds one plain text node, the caret anywhere in the paragraph
MaxLoad == 6

Title == Block("heading-one", <<>>, <<Leaf(<<"T">>, {}, <<>>)>>)

LoadedDocs ==
    {<<Title, Block("paragraph", <<>>, <<Leaf(s, {}, <<>>)>>)>> : s \in Texts(0, MaxLoad)}

KeystrokeKeyboards ==
    { {"*", "a", " "}, {"_", " "}, {BACKTICK, "a"}, {"[", "]", "(", ")"} }

InitKeystroke ==
    /\ keys \in KeystrokeKeyboards
    /\ doc \in LoadedDocs
    /\ selection \in {Caret(p) : p \in {q \in Points(doc) : q.b = 2}}
    /\ marks = NoMarks
    /\ last = NoCall("init")
    /\ typed = Dirty

NextKeystroke == last.op = "init" /\ Type

SpecKeystroke == InitKeystroke /\ [][NextKeystroke]_vars

\* SpecOutdent: backspace and enter are pressed and the selection changed in a
\* loaded document of two blocks: an empty paragraph or a heading, then a block
\* of any kind
MaxEdit == 2

OutdentKeyboards == { {"a", "b"} }

LoadedBlocks ==
    {Block(type, IF type = "list-item" THEN <<"bulleted-list">> ELSE <<>>,
           <<Leaf(s, {}, <<>>)>>) :
        type \in {"paragraph", "heading-one", "heading-two", "block-quote", "list-item"},
        s \in Texts(0, MaxEdit)}

InitOutdent ==
    /\ keys \in OutdentKeyboards
    /\ doc \in {<<first, second>> : first \in {EmptyParagraph, Title}, second \in LoadedBlocks}
    /\ selection \in {Caret(p) : p \in Points(doc)}
    /\ marks = NoMarks
    /\ last = NoCall("init")
    /\ typed = Dirty

NextOutdent ==
    \/ DeleteBackward
    \/ InsertBreak
    \/ MoveCaret
    \/ SelectRange
    \/ Deselect

SpecOutdent == InitOutdent /\ [][NextOutdent]_vars

\* SpecSelection: one key is pressed in a loaded document, a heading and a plain
\* paragraph, where the selection is a caret, a range of the paragraph's text in
\* either direction, or has been lost
MaxSelect == 3

SelectionKeyboards == { {"*", "a", " "}, {"#", " "}, {BACKTICK, "_"} }

InitSelection ==
    /\ keys \in SelectionKeyboards
    /\ doc \in {<<Title, Block("paragraph", <<>>, <<Leaf(s, {}, <<>>)>>)>> :
                    s \in Texts(1, MaxSelect)}
    /\ selection \in {[anchor |-> p, focus |-> q] :
                        p, q \in {r \in Points(doc) : r.b = 2}}
    /\ marks = NoMarks
    /\ last = NoCall("init")
    /\ typed = Dirty

NextSelection ==
    \/ last.op = "init" /\ Deselect
    \/ last.op # "insertText" /\ Type

SpecSelection == InitSelection /\ [][NextSelection]_vars

(***************************************************************************)
(* The claims                                                              *)
(***************************************************************************)
\* the texts of 1 to n characters over the characters cs
Words(cs, n) == UNION {[1..k -> cs] : k \in 1..n}

\* the block rules as the claims state them: trigger text, target type, list
C1_Rules ==
    {[trigger |-> <<c>>, type |-> "list-item"] : c \in {"*", "-", "+"}}
    \cup {[trigger |-> ds \o <<".">>, type |-> "list-item"] : ds \in Words({"1"}, MaxTyped - 2)}
    \cup {[trigger |-> <<">">>, type |-> "block-quote"],
          [trigger |-> <<"#">>, type |-> "heading-one"],
          [trigger |-> <<"#", "#">>, type |-> "heading-two"],
          [trigger |-> <<"#", "#", "#">>, type |-> "heading-three"]}

\* C1: typing the trigger text of a block rule and then a space into the empty
\* paragraph leaves one block of the rule's target type whose text is empty: the
\* trigger text is removed and the space is not inserted
C1_BlockRuleRetypes ==
    \A r \in C1_Rules :
        typed = r.trigger \o <<" ">> =>
            /\ Len(doc) = 1
            /\ doc[1].type = r.type
            /\ BlockText(doc[1]) = <<>>

C1_Witness ==
    /\ typed = <<"#", "#", "#", " ">>
    /\ doc[1].type = "heading-three"
    /\ BlockText(doc[1]) = <<>>
    /\ last.block = 6

\* the emphasis and code rules as the claims state them: delimiter and mark
C2_Rules ==
    {[d |-> <<"*", "*">>, type |-> "bold"], [d |-> <<"_", "_">>, type |-> "bold"],
     [d |-> <<"*">>, type |-> "italic"], [d |-> <<"_">>, type |-> "italic"],
     [d |-> <<BACKTICK>>, type |-> "code"]}

\* the characters of the delimiters of the inline rules
Delimiters == {"*", "_", BACKTICK, "[", "]", "(", ")"}

\* typed is open, a non-empty inner text without a delimiter character, close
C2_Typed(r, inner) ==
    /\ typed # Dirty
    /\ typed = r.d \o inner \o r.d
    /\ inner # <<>>
    /\ Range(inner) \cap Delimiters = {}

\* what lies between the first and the last Len(d) characters typed
C2_Inner(d) == IF typed = Dirty THEN <<>> ELSE SubSeq(typed, Len(d) + 1, Len(typed) - Len(d))

\* C2 as stated: typing <open><inner><close> into the empty paragraph, for every
\* rule and every non-empty inner text without a delimiter character, leaves a
\* paragraph whose only text run is the inner text with exactly the rule's mark
C2_EmphasisAnyInner ==
    \A r \in C2_Rules :
        C2_Typed(r, C2_Inner(r.d)) =>
            doc = <<Block("paragraph", <<>>, <<Leaf(C2_Inner(r.d), {r.type}, <<>>)>>)>>

\* C2 as amended: the same, except for the rule * when the inner text begins with
\* a space (typing * and a space is the trigger of the bulleted list)
C2_EmphasisResolves ==
    \A r \in C2_Rules :
        /\ C2_Typed(r, C2_Inner(r.d))
        /\ ~(r.d = <<"*">> /\ C2_Inner(r.d)[1] = " ")
        => doc = <<Block("paragraph", <<>>, <<Leaf(C2_Inner(r.d), {r.type}, <<>>)>>)>>

C2_Witness ==
    /\ typed = <<"*", "*", "a", " ", "*", "*">>
    /\ doc = <<Block("paragraph", <<>>, <<Leaf(<<"a", " ">>, {"bold"}, <<>>)>>)>>
    /\ last.inline = 1

\* the leaves of the block that are inside a link
LinkLeaves(block) == SelectSeq(block.leaves, LAMBDA leaf : leaf.link # <<>>)

\* C3: typing [text](url) into the empty paragraph leaves one link whose url is
\* the typed url and whose text is the typed link text, and the text of the
\* document is the link text: none of [, ], (, ) remains
C3_LinkResolves ==
    \A text \in Words({"a", "b"}, MaxTyped - 5) : \A url \in Words({"a", "b"}, MaxTyped - 5) :
        typed = <<"[">> \o text \o <<"]", "(">> \o url \o <<")">> =>
            /\ Len(doc) = 1
            /\ LinkLeaves(doc[1]) = <<Leaf(text, {}, <<url>>)>>
            /\ DocText(doc) = text

C3_Witness ==
    /\ typed = <<"[", "a", "]", "(", "b", ")">>
    /\ LinkLeaves(doc[1]) = <<Leaf(<<"a">>, {}, <<"b">>)>>
    /\ last.inline = 6

\* how many of the list containers above a block are of the kind listType
Containers(block, listType) == Len(SelectSeq(block.wrap, LAMBDA w : w = listType))

\* C4 as stated: a call of insertText that applies a list rule leaves the block a
\* list-item in exactly one list container of the rule's kind; one that applies
\* another block rule adds no list container to the document
C4_OneListContainer ==
    [][last'.op = "insertText" /\ last'.block # 0 =>
        LET b    == selection.anchor.b
            rule == BLOCK_SHORTCUTS[last'.block]
        IN  IF rule.type = "list-item"
            THEN /\ doc'[b].type = "list-item"
                 /\ Containers(doc'[b], rule.listType) = 1
            ELSE /\ Len(doc') = Len(doc)
                 /\ \A i \in 1..Len(doc) : doc'[i].wrap = doc[i].wrap]_vars

\* the caret is at the start of a block that is neither a paragraph nor a list-item
C5_AtStartOfRetypedBlock ==
    /\ selection # NoSelection
    /\ selection.anchor = selection.focus
    /\ selection.anchor.l = 1
    /\ selection.anchor.o = 0
    /\ doc[selection.anchor.b].type \notin {"paragraph", "list-item"}

\* C5: a deleteBackward with the caret at the start of a block that is neither a
\* paragraph nor a list-item only sets the type of that block to paragraph: no
\* character is deleted, no block merged, the caret stays and the host's
\* deleteBackward is not called; the deleteBackward that follows it is passed to
\* the host's deleteBackward and to nothing else
C5_OutdentThenDelete ==
    [][last'.op = "deleteBackward" =>
        /\ C5_AtStartOfRetypedBlock =>
            /\ doc' = [doc EXCEPT ![selection.anchor.b].type = "paragraph"]
            /\ selection' = selection
            /\ \A i \in 1..Len(last'.calls) : last'.calls[i].fn # "deleteBackward"
        /\ Outdented(last) => last'.calls = <<[fn |-> "deleteBackward"]>>]_vars

\* a heading after the title was outdented and the next backspace merged it
C5_Witness ==
    /\ last.op = "deleteBackward"
    /\ last.afterOutdent
    /\ last.calls = <<[fn |-> "deleteBackward"]>>
    /\ Len(doc) = 1
    /\ BlockText(doc[1]) = <<"T", "a", "b">>

\* C9 as stated: a call of insertText with more than one character applies no
\* rule: the text is passed to the host's insertText and to nothing else
C9_PasteIsVerbatim ==
    last.op = "insertText" /\ Len(last.text) > 1 =>
        /\ last.block = 0
        /\ last.inline = 0
        /\ last.calls = <<[fn |-> "insertText", text |-> last.text]>>

\* the characters that end the closing delimiter of an inline rule
Closers == {"*", "_", BACKTICK, ")"}

\* C6 as stated: when insertText applies an inline rule the match ends at the
\* in-flight character, which is the last character of the closing delimiter; a
\* typed character that ends no closing delimiter is consumed by no inline rule
\* and, unless a block rule applies, passed to the host's insertText
C6_MatchEndsInFlight ==
    last.op = "insertText" /\ Len(last.text) = 1 =>
        /\ last.inline # 0 => /\ last.matchEnd = Len(last.element)
                              /\ last.text[1] \in Closers
        /\ last.text[1] \notin Closers =>
              /\ last.inline = 0
              /\ last.block = 0 => last.calls = <<[fn |-> "insertText", text |-> last.text]>>

\* the leaves of s that hold text
NonEmpty(s) == SelectSeq(s, LAMBDA leaf : leaf.text # <<>>)

\* C7: when an emphasis or code rule resolves at the caret (its match ends at the
\* typed character), the text node is left as the text before the opening
\* delimiter with its marks, the inner text with the rule's mark added, and the
\* text after the caret with its marks; the block keeps its type and its list
\* containers and every other block is unchanged
C7_OnlyInnerTextMarked ==
    [][/\ last'.op = "insertText"
       /\ last'.inline # 0
       /\ INLINE_SHORTCUTS[last'.inline].type # "link"
       /\ last'.matchEnd = Len(last'.element)
       => LET p    == selection.anchor
              lv   == doc[p.b].leaves
              leaf == lv[p.l]
              k    == Len(last'.element) - Len(Flatten(last'.result))
              type == INLINE_SHORTCUTS[last'.inline].type
          IN  doc' = [doc EXCEPT ![p.b].leaves =
                        Take(lv, p.l - 1)
                        \o NonEmpty(<<[leaf EXCEPT !.text = Take(leaf.text, k)],
                                      [leaf EXCEPT !.text = last'.result[2],
                                                   !.marks = @ \cup {type}],
                                      [leaf EXCEPT !.text = Drop(leaf.text, p.o)]>>)
                        \o Drop(lv, p.l)]]_vars

\* "a *a*" was completed before "a": unmarked "a ", italic "a", unmarked "a"
C7_Witness ==
    /\ last.inline = 3
    /\ last.element = <<"a", " ", "*", "a", "*">>
    /\ last.matchEnd = 5
    /\ doc = <<Title, Block("paragraph", <<>>,
                            <<Leaf(<<"a", " ">>, {}, <<>>), Leaf(<<"a">>, {"italic"}, <<>>),
                              Leaf(<<"a">>, {}, <<>>)>>)>>

\* C8: every range a call of insertText with a single character passes to the
\* host (to delete, to set the mark, to wrap in the link) lies within the text
\* node it addresses as that node is when the host is called
C8_RangesInBounds ==
    last.op = "insertText" /\ Len(last.text) = 1 =>
        \A i \in 1..Len(last.calls) :
            "start" \in DOMAIN last.calls[i] =>
                /\ 0 <= last.calls[i].start
                /\ last.calls[i].start <= last.calls[i].end
                /\ last.calls[i].end <= last.calls[i].length

\* a link was resolved before the end of the text node: "](", the url and "["
\* were deleted and the link text wrapped
C8_Witness ==
    /\ last.op = "insertText"
    /\ last.inline = 6
    /\ last.ok
    /\ Len(last.calls) = 3
    /\ last.calls[1].fn = "delete" /\ last.calls[1].end < last.calls[1].length
    /\ last.calls[2].fn = "delete" /\ last.calls[2].end = 1
    /\ last.calls[3].fn = "wrapNodes" /\ last.calls[3].end = 1
    /\ Len(LinkLeaves(doc[2])) = 1

\* the pairs of a bold delimiter and the italic delimiter that corresponds to it
C10_Pairs == {<<(<<"*", "*">>), (<<"*">>)>>, <<(<<"_", "_">>), (<<"_">>)>>}

\* C10: when a bold pattern and the italic pattern that corresponds to it both
\* match the text before the caret with the in-flight character, insertText
\* applies a bold rule; and typing the last * of **word** at the start of a text
\* node leaves word bold, followed by the text after the caret, with no * of
\* the pattern left
C10_BoldBeforeItalic ==
    [][last'.op = "insertText" =>
        LET p    == selection.anchor
            leaf == doc[p.b].leaves[p.l]
            el   == Take(leaf.text, p.o) \o last'.text
            word == SubSeq(el, 3, Len(el) - 2)
        IN  /\ \A pair \in C10_Pairs :
                  /\ EmphasisMatch(pair[1], el) # NoMatch
                  /\ EmphasisMatch(pair[2], el) # NoMatch
                  => /\ last'.inline # 0
                     /\ INLINE_SHORTCUTS[last'.inline].type = "bold"
            /\ (/\ Len(el) >= 5
                /\ el = <<"*", "*">> \o word \o <<"*", "*">>
                /\ "*" \notin Range(word))
               => doc'[p.b].leaves =
                     NonEmpty(<<[leaf EXCEPT !.text = word, !.marks = @ \cup {"bold"}],
                                [leaf EXCEPT !.text = Drop(leaf.text, p.o)]>>)]_vars

\* the last * of "* **a**" was typed: both * a* ... and **a** match, bold is applied
C10_Witness ==
    /\ last.inline = 1
    /\ last.element = <<"*", " ", "*", "*", "a", "*", "*">>
    /\ EmphasisMatch(<<"*">>, last.element) # NoMatch
    /\ doc[2].leaves = <<Leaf(<<"*", " ">>, {}, <<>>), Leaf(<<"a">>, {"bold"}, <<>>)>>

\* the call applied a bold, italic or code rule
Emphasized(call) ==
    call.op = "insertText" /\ call.inline # 0 /\ INLINE_SHORTCUTS[call.inline].type # "link"

\* the call passed its single character to the host's insertText and nothing else
Ordinary(call) ==
    /\ call.op = "insertText"
    /\ Len(call.text) = 1
    /\ call.calls = <<[fn |-> "insertText", text |-> call.text]>>

\* C11: when insertText applies an emphasis or code rule the pending marks are
\* set and do not hold the rule's mark, and the ordinary character typed next
\* is inserted before the caret in a text node that does not carry that mark
C11_PendingMarkCleared ==
    [][/\ Emphasized(last') =>
            /\ marks' # NoMarks
            /\ INLINE_SHORTCUTS[last'.inline].type \notin marks'
       /\ Emphasized(last) /\ Ordinary(last') =>
            LET p == selection'.anchor
                leaf == doc'[p.b].leaves[p.l]
            IN  /\ p.o >= 1
                /\ leaf.text[p.o] = last'.text[1]
                /\ INLINE_SHORTCUTS[last.inline].type \notin leaf.marks]_vars

\* "a" was typed after *a* resolved: italic "a", then unmarked "a"
C11_Witness ==
    /\ typed = <<"*", "a", "*", "a">>
    /\ last.afterOutdent = FALSE
    /\ doc[1].leaves = <<Leaf(<<"a">>, {"italic"}, <<>>), Leaf(<<"a">>, {}, <<>>)>>

\* the document with the selected range of text replaced by text, unchanged
\* when there is no selection
Replaced(d, sel, text) ==
    IF sel = NoSelection THEN d
    ELSE LET from == Min({sel.anchor.o, sel.focus.o})
             to   == Max({sel.anchor.o, sel.focus.o})
             b    == sel.anchor.b
             l    == sel.anchor.l
             old  == d[b].leaves[l].text
         IN  [d EXCEPT ![b].leaves[l].text = Take(old, from) \o text \o Drop(old, to)]

\* C12: an insertText call made with no selection or with a range selected
\* evaluates no rule and makes one call, the host's insertText with the same
\* text, which replaces the selected text and nothing else
C12_RangeOrNoSelectionIsDefault ==
    [][(last'.op = "insertText" /\ (selection = NoSelection \/ ~IsCollapsed(selection))) =>
            /\ last'.block = 0 /\ last'.inline = 0
            /\ last'.calls = <<[fn |-> "insertText", text |-> last'.text]>>
            /\ doc' = Replaced(doc, selection, last'.text)]_vars

\* "*" replaced the selected "b" of "*ab": the text "*a*" stays plain
C12_Witness ==
    /\ last.op = "insertText" /\ last.text = <<"*">>
    /\ last.calls = <<[fn |-> "insertText", text |-> <<"*">>]>>
    /\ doc[2].leaves = <<Leaf(<<"*", "a", "*">>, {}, <<>>)>>
    /\ selection = Caret(Point(2, 1, 3))

\* C13: an insertText call with a collapsed caret where neither a block rule
\* matches the text before the caret nor an inline rule the node's text up to
\* the caret plus the new text makes one call, the host's insertText with the
\* same text; the text goes in at the caret and nothing else changes
C13_NoMatchFallsThrough ==
    [][(/\ last'.op = "insertText"
        /\ selection # NoSelection /\ IsCollapsed(selection)
        /\ BlockHit(Editor, last'.text) = 0
        /\ InlineShortcut(ElementText(Editor, last'.text)) = 0) =>
            /\ last'.calls = <<[fn |-> "insertText", text |-> last'.text]>>
            /\ doc' = Replaced(doc, selection, last'.text)
            /\ selection' = Caret([selection.anchor EXCEPT !.o = @ + Len(last'.text)])]_vars

\* "a" was typed at the end of "*a": no rule matches "*aa"
C13_Witness ==
    /\ last.op = "insertText" /\ last.text = <<"a">>
    /\ last.calls = <<[fn |-> "insertText", text |-> <<"a">>]>>
    /\ doc[2].leaves = <<Leaf(<<"*", "a", "a">>, {}, <<>>)>>
    /\ selection = Caret(Point(2, 1, 3))

\* C14: every list-item block is inside a list container
C14_ListItemInList ==
    \A b \in 1..Len(doc) : doc[b].type = "list-item" => doc[b].wrap # <<>>

\* C15: every text block inside a list container is a list-item
C15_ListHoldsListItems ==
    \A b \in 1..Len(doc) : doc[b].wrap # <<>> => doc[b].type = "list-item"

\* the delimiter characters of the inline rule i
OwnDelimiters(i) ==
    IF INLINE_SHORTCUTS[i].type = "link" THEN {"[", "]", "(", ")"}
    ELSE {INLINE_SHORTCUTS[i].open[1]}

\* the groups of a match that are not delimiters: the inner text, or the link
\* text and the url
Captured(i, result) ==
    IF INLINE_SHORTCUTS[i].type = "link" THEN {result[2], result[4]} ELSE {result[2]}

\* C16: the text an applied inline rule captured between its delimiters holds
\* none of the rule's delimiter characters
C16_InnerHasNoDelimiter ==
    (last.op = "insertText" /\ last.inline # 0) =>
        \A s \in Captured(last.inline, last.result) :
            \A k \in 1..Len(s) : s[k] \notin OwnDelimiters(last.inline)

\* the length of a match: the sum of the lengths of its groups
MatchLength(result) ==
    LET RECURSIVE Sum(_)
        Sum(k) == IF k = 0 THEN 0 ELSE Len(result[k]) + Sum(k - 1)
    IN  Sum(Len(result))

\* C17: an inline rule is applied only where its opening delimiter is the first
\* character of the block's text or follows a whitespace character in it
C17_NotInsideAWord ==
    [][(last'.op = "insertText" /\ last'.inline # 0) =>
            LET blockText == TextBefore(doc, selection.anchor) \o last'.text
                open      == Len(blockText) - Len(last'.element)
                               + last'.matchEnd - MatchLength(last'.result) + 1
            IN  open = 1 \/ blockText[open - 1] \in WS]_vars

\* the calls of the block transformation of the rule r
BlockCalls(r) ==
    <<[fn |-> "select"], [fn |-> "deleteSelection"], [fn |-> "setNodes", type |-> r.type]>>
        \o (IF r.listType = "none" THEN <<>>
            ELSE <<[fn |-> "wrapNodes", type |-> r.listType]>>)

\* C18: when a space is typed at a collapsed caret and the block's text before
\* the caret matches a block rule, the call makes the calls of that rule's block
\* transformation and no other, applies no inline rule, and the block keeps the
\* text that followed the caret with no space added; a typed space applies an
\* inline rule only when no block rule matches
C18_BlockRuleWins ==
    [][(/\ last'.op = "insertText" /\ last'.text = <<" ">>
        /\ selection # NoSelection /\ IsCollapsed(selection)) =>
            LET before == TextBefore(doc, selection.anchor)
                b      == selection.anchor.b
            IN  /\ BlockShortcut(before) # 0 =>
                    /\ last'.block = BlockShortcut(before)
                    /\ last'.inline = 0
                    /\ last'.calls = BlockCalls(BLOCK_SHORTCUTS[BlockShortcut(before)])
                    /\ BlockText(doc'[b]) = Drop(BlockText(doc[b]), Len(before))
                /\ last'.inline # 0 => BlockShortcut(before) = 0]_vars

\* a space typed after "#" made the paragraph a heading with no text
C18_Witness ==
    /\ last.op = "insertText" /\ last.text = <<" ">> /\ last.block # 0
    /\ doc[2].type = "heading-one"
    /\ BlockText(doc[2]) = <<>>

\* a space typed after the loaded "*a*" applied the italic rule
C18_InlineOnSpace ==
    /\ last.op = "insertText" /\ last.text = <<" ">>
    /\ last.inline # 0 /\ INLINE_SHORTCUTS[last.inline].type = "italic"

\* the types of the blocks of d, in order
Types(d) == [b \in 1..Len(d) |-> d[b].type]

\* C19: a deleteBackward with a collapsed caret that is in a paragraph or a
\* list-item, or not at the start of its block, makes one call, the host's
\* deleteBackward; no block changes its type: the blocks keep their types, or
\* the caret's block or the one before it is gone and the others keep theirs
C19_OrdinaryBackspace ==
    [][(/\ last'.op = "deleteBackward"
        /\ selection # NoSelection /\ IsCollapsed(selection)
        /\ ~C5_AtStartOfRetypedBlock) =>
            /\ last'.calls = <<[fn |-> "deleteBackward"]>>
            /\ \/ Types(doc') = Types(doc)
               \/ \E b \in {selection.anchor.b - 1, selection.anchor.b} \cap (1..Len(doc)) :
                    Types(doc') = RemoveAt(Types(doc), b)]_vars

\* backspace at the start of a list-item after the title merged it into the title
C19_Witness ==
    /\ last.op = "deleteBackward"
    /\ last.calls = <<[fn |-> "deleteBackward"]>>
    /\ ~last.afterOutdent
    /\ Len(doc) = 1
    /\ doc[1].type = "heading-one"
    /\ BlockText(doc[1]) = <<"T", "a">>

\* C20: a deleteBackward with no selection or with a range selected makes no
\* call and leaves the document and the selection as they were
C20_Swallowed ==
    [][(last'.op = "deleteBackward" /\ (selection = NoSelection \/ ~IsCollapsed(selection))) =>
            /\ last'.calls = <<>>
            /\ doc' = doc
            /\ selection' = selection]_vars

\* backspace was pressed with "ab" selected: it is still there and still selected
C20_Witness ==
    /\ last.op = "deleteBackward" /\ last.calls = <<>>
    /\ selection # NoSelection /\ ~IsCollapsed(selection)
    /\ BlockText(doc[2]) = <<"a", "b">>
    /\ selection.anchor.o = 0 /\ selection.focus.o = 2

====
